---- MODULE Spec2Model ----
(***************************************************************************)
(* A model of gotemplate: user registration / login with JWT tokens and    *)
(* per-user product CRUD over a PostgreSQL store reached through GORM raw  *)
(* SQL.                                                                    *)
(*                                                                         *)
(* Conventions                                                             *)
(*   - a Go error is the chain of its messages, outermost first: nil is    *)
(*     <<>>, fmt.Errorf("a: %w", e) is <<"a">> \o e;                       *)
(*   - a table is the set of its rows; a serial column is a counter that   *)
(*     nextval() advances on every INSERT attempt, failed or not;          *)
(*   - float64 prices are integers (a fixed number of currency units);     *)
(*   - time is counted in ticks, TicksPerSecond to the second, so that the *)
(*     truncation of JWT dates to whole seconds is visible;                *)
(*   - decimal strings are sequences of one-character strings;             *)
(*   - I/O failures of the store (lost connection, timeout) are outside    *)
(*     the model: a statement fails only by violating a constraint.        *)
(***************************************************************************)
EXTENDS Integers, Sequences, FiniteSets, TLC

\* ------------------------------------------------------------------ bounds

\* largest value the users_id_seq sequence may reach
MaxUserID == 2
\* largest value the products_id_seq sequence may reach
MaxProductID == 1
\* the clock stops advancing here (in ticks)
MaxTime == 5
\* longest configured token validity (in ticks)
MaxDuration == 3
\* resolution of the clock: ticks per second
TicksPerSecond == 2

\* ------------------------------------------------------------- input sets

Usernames == {"ann", "bob"}
Emails == {"a@x.io", "b@x.io"}
Passwords == {"secret1", "secret2"}
\* uint arguments handed to the services; 0 is the identifier of no row
CallerIDs == 0..MaxUserID
ProductIDs == 1..MaxProductID

\* ------------------------------------------------------------------ state

VARIABLES
    users,          \* rows of table users
    userSeq,        \* last value of users_id_seq
    products,       \* rows of table products
    productSeq,     \* last value of products_id_seq
    now,            \* time.Now(), in ticks
    expiresInHour,  \* JWTManager.expiresInHour, in ticks
    held,           \* the token string the client got from its last login
    last,           \* the last call: operation, arguments, results
    deleted,        \* history: ids whose DeleteProduct returned nil
    registered,     \* history: what RegisterUser returned to its callers
    inflight        \* the requests that are between two statements on the store

vars == <<users, userSeq, products, productSeq, now, expiresInHour, held,
          last, deleted, registered, inflight>>

\* ------------------------------------------------------------- data model

\* the zero value of models.User (gorm.Model.ID, Username, Email, Password)
ZeroUser == [ID |-> 0, Username |-> "", Email |-> "", Password |-> <<>>]

\* the zero value of models.Product
ZeroProduct == [ID |-> 0, Name |-> "", Description |-> "", Price |-> 0, UserID |-> 0]

\* the zero value of models.UpdateProductRequest / AddProductRequest
ZeroRequest == [Name |-> "", Description |-> "", Price |-> 0]

\* bodies of AddProduct calls: a valid one, and prices the CHECK refuses
AddRequests == [Name : {"widget"}, Description : {""}, Price : {-1, 0, 1}]

\* bodies of UpdateProduct calls: every field absent, one field present, all present
UpdateRequests ==
    {ZeroRequest,
     [ZeroRequest EXCEPT !.Name = "gadget"],
     [ZeroRequest EXCEPT !.Description = "blue"],
     [ZeroRequest EXCEPT !.Price = 2],
     [ZeroRequest EXCEPT !.Price = -1],
     [Name |-> "gadget", Description |-> "blue", Price |-> 2]}

\* a nil error
Nil == <<>>

\* fmt.Errorf(msg + ": %w", err)
Wrap(msg, err) == <<msg>> \o err

\* ------------------------------------------------- decimal <-> uint

Digits == <<"0", "1", "2", "3", "4", "5", "6", "7", "8", "9">>

DigitValue(c) == (CHOOSE i \in 1..10 : Digits[i] = c) - 1

IsDigit(c) == \E i \in 1..10 : Digits[i] = c

RECURSIVE FormatUint(_)
\* fmt.Sprintf("%d", n) for an unsigned n
FormatUint(n) ==
    IF n < 10 THEN <<Digits[n + 1]>>
    ELSE FormatUint(n \div 10) \o <<Digits[(n % 10) + 1]>>

RECURSIVE ParseDigits(_, _)
ParseDigits(s, acc) ==
    IF s = <<>> THEN acc
    ELSE ParseDigits(Tail(s), acc * 10 + DigitValue(Head(s)))

\* strconv.ParseUint(s, 10, 64): [val, err]; empty or non-digit input is a syntax error
ParseUint(s) ==
    IF s = <<>> \/ \E i \in 1..Len(s) : ~IsDigit(s[i])
    THEN [val |-> 0, err |-> <<"strconv.ParseUint: invalid syntax">>]
    ELSE [val |-> ParseDigits(s, 0), err |-> Nil]

\* ------------------------------------------------------------- the store

\* gorm Raw(sql).Scan(dest) of a single-row SELECT: the row found is copied into
\* dest; with no row, dest keeps its zero value and result.Error stays nil
\* (only First/Take/Last raise gorm.ErrRecordNotFound).
ScanRow(rows, zero) == IF rows = {} THEN zero ELSE CHOOSE r \in rows : TRUE

\* table products without its CHECK: every price is accepted
PriceCheckAny(price) == TRUE

\* CHECK (price > 0) of table products
PriceCheck(price) == price > 0

\* table products without its foreign key: every user_id is accepted
UserIDForeignKeyAny(userRows, userID) == TRUE

\* FOREIGN KEY products.user_id -> users.id
UserIDForeignKey(userRows, userID) == \E u \in userRows : u.ID = userID

\* ------------------------------------------- repository: products

\* postgresProductRepository.AddProduct: [db, seq, id, err]
RepoAddProduct(db, seq, userRows, product) ==
    LET newID == seq + 1
        ok == PriceCheck(product.Price) /\ UserIDForeignKey(userRows, product.UserID)
    IN IF ok
       THEN [db  |-> db \cup {[product EXCEPT !.ID = newID]},
             seq |-> newID, id |-> newID, err |-> Nil]
       ELSE [db  |-> db, seq |-> newID, id |-> product.ID,
             err |-> <<"failed to add product", "constraint violation">>]

\* postgresProductRepository.GetProductByID: [product, err]
GetProductByID(db, id) ==
    [product |-> ScanRow({p \in db : p.ID = id}, ZeroProduct), err |-> Nil]

\* GetProductsByUserID without its WHERE clause: every row is selected
GetProductsByUserIDAll(db, userID) == [products |-> db, err |-> Nil]

\* postgresProductRepository.GetProductsByUserID: [products, err]
GetProductsByUserID(db, userID) ==
    [products |-> {p \in db : p.UserID = userID}, err |-> Nil]

\* UpdateProduct as INSERT ... ON CONFLICT (id) DO UPDATE: a missing row is made
RepoUpdateProductUpsert(db, product) ==
    LET rows == {p \in db : p.ID = product.ID}
    IN IF ~PriceCheck(product.Price)
       THEN [db |-> db, err |-> <<"failed to update product", "constraint violation">>]
       ELSE [db |-> (db \ rows) \cup {product}, err |-> Nil]

\* UpdateProduct with user_id added to the SET list and bound to product.ID
RepoUpdateProductSetsOwner(db, product) ==
    LET rows == {p \in db : p.ID = product.ID}
        set(p) == [p EXCEPT !.Name = product.Name,
                            !.Description = product.Description,
                            !.Price = product.Price,
                            !.UserID = product.ID]
    IN IF rows # {} /\ ~PriceCheck(product.Price)
       THEN [db |-> db, err |-> <<"failed to update product", "constraint violation">>]
       ELSE IF rows = {}
       THEN [db |-> db, err |-> <<"product not found for update (raw SQL)">>]
       ELSE [db |-> (db \ rows) \cup {set(p) : p \in rows}, err |-> Nil]

\* postgresProductRepository.UpdateProduct: [db, err]
RepoUpdateProduct(db, product) ==
    LET rows == {p \in db : p.ID = product.ID}
        set(p) == [p EXCEPT !.Name = product.Name,
                            !.Description = product.Description,
                            !.Price = product.Price]
    IN IF rows # {} /\ ~PriceCheck(product.Price)
       THEN [db |-> db, err |-> <<"failed to update product", "constraint violation">>]
       ELSE IF rows = {}
       THEN [db |-> db, err |-> <<"product not found for update (raw SQL)">>]
       ELSE [db |-> (db \ rows) \cup {set(p) : p \in rows}, err |-> Nil]

\* postgresProductRepository.DeleteProduct: [db, err]
RepoDeleteProduct(db, id) ==
    LET rows == {p \in db : p.ID = id}
    IN IF rows = {}
       THEN [db |-> db, err |-> <<"product not found for deletion (raw SQL)">>]
       ELSE [db |-> db \ rows, err |-> Nil]

\* ---------------------------------------------- service: products

\* productService.AddProduct: [db, seq, product, err]
AddProduct(db, seq, userRows, userID, req) ==
    LET product == [ID |-> 0, Name |-> req.Name, Description |-> req.Description,
                    Price |-> req.Price, UserID |-> userID]
        r == RepoAddProduct(db, seq, userRows, product)
    IN IF r.err # Nil
       THEN [db |-> r.db, seq |-> r.seq, product |-> ZeroProduct,
             err |-> Wrap("failed to add product", r.err)]
       ELSE [db |-> r.db, seq |-> r.seq, product |-> [product EXCEPT !.ID = r.id],
             err |-> Nil]

\* productService.GetProduct: [product, err]
GetProduct(db, productID) ==
    LET r == GetProductByID(db, productID)
    IN IF r.err # Nil
       THEN [product |-> ZeroProduct, err |-> Wrap("product not found", r.err)]
       ELSE [product |-> r.product, err |-> Nil]

\* productService.GetProductsByOwner: [products, err]
GetProductsByOwner(db, userID) ==
    LET r == GetProductsByUserID(db, userID)
    IN IF r.err # Nil
       THEN [products |-> {}, err |-> Wrap("failed to retrieve products", r.err)]
       ELSE [products |-> r.products, err |-> Nil]

\* ApplyPatch without the "if provided" tests: every field is assigned
ApplyPatchOverwrite(product, req) ==
    [product EXCEPT !.Name = req.Name, !.Description = req.Description,
                    !.Price = req.Price]

\* the "Update fields if provided" block of productService.UpdateProduct
ApplyPatch(product, req) ==
    [product EXCEPT
        !.Name = IF req.Name # "" THEN req.Name ELSE @,
        !.Description = IF req.Description # "" THEN req.Description ELSE @,
        !.Price = IF req.Price # 0 THEN req.Price ELSE @]

\* IsOwner with the comparison dropped: every caller passes
IsOwnerAnyCaller(product, userID) == TRUE

\* the authorization check of UpdateProduct / DeleteProduct
IsOwner(product, userID) == product.UserID = userID

\* UpdateProduct with the repository call made before the authorization check
UpdateProductWritesBeforeCheck(db, productID, userID, req) ==
    LET g == GetProductByID(db, productID)
        product == ApplyPatch(g.product, req)
        u == RepoUpdateProduct(db, product)
    IN IF ~IsOwner(g.product, userID)
       THEN [db |-> u.db, product |-> ZeroProduct,
             err |-> <<"you are not authorized to update this product">>]
       ELSE IF u.err # Nil
       THEN [db |-> u.db, product |-> ZeroProduct,
             err |-> Wrap("failed to update product", u.err)]
       ELSE [db |-> u.db, product |-> product, err |-> Nil]

\* productService.UpdateProduct: [db, product, err]
UpdateProduct(db, productID, userID, req) ==
    LET g == GetProductByID(db, productID)
    IN IF g.err # Nil
       THEN [db |-> db, product |-> ZeroProduct, err |-> Wrap("product not found", g.err)]
       ELSE IF ~IsOwner(g.product, userID)
       THEN [db |-> db, product |-> ZeroProduct,
             err |-> <<"you are not authorized to update this product">>]
       ELSE LET product == ApplyPatch(g.product, req)
                u == RepoUpdateProduct(db, product)
            IN IF u.err # Nil
               THEN [db |-> u.db, product |-> ZeroProduct,
                     err |-> Wrap("failed to update product", u.err)]
               ELSE [db |-> u.db, product |-> product, err |-> Nil]

\* DeleteProduct without its authorization check
DeleteProductNoOwnerCheck(db, productID, userID) ==
    LET d == RepoDeleteProduct(db, productID)
    IN IF d.err # Nil
       THEN [db |-> d.db, err |-> Wrap("failed to delete product", d.err)]
       ELSE [db |-> d.db, err |-> Nil]

\* productService.DeleteProduct: [db, err]
DeleteProduct(db, productID, userID) ==
    LET g == GetProductByID(db, productID)
    IN IF g.err # Nil
       THEN [db |-> db, err |-> Wrap("product not found", g.err)]
       ELSE IF ~IsOwner(g.product, userID)
       THEN [db |-> db, err |-> <<"you are not authorized to delete this product">>]
       ELSE LET d == RepoDeleteProduct(db, productID)
            IN IF d.err # Nil
               THEN [db |-> d.db, err |-> Wrap("failed to delete product", d.err)]
               ELSE [db |-> d.db, err |-> Nil]

\* UpdateProduct up to its repository write, the fetch, the authorization
\* check and the patch: [ok, product, err]
UpdateProductFetch(db, productID, userID, req) ==
    LET g == GetProductByID(db, productID)
    IN IF g.err # Nil
       THEN [ok |-> FALSE, product |-> ZeroProduct,
             err |-> Wrap("product not found", g.err)]
       ELSE IF ~IsOwner(g.product, userID)
       THEN [ok |-> FALSE, product |-> ZeroProduct,
             err |-> <<"you are not authorized to update this product">>]
       ELSE [ok |-> TRUE, product |-> ApplyPatch(g.product, req), err |-> Nil]

\* UpdateProduct from its repository write on: [db, product, err]
UpdateProductWrite(db, product) ==
    LET u == RepoUpdateProduct(db, product)
    IN IF u.err # Nil
       THEN [db |-> u.db, product |-> ZeroProduct,
             err |-> Wrap("failed to update product", u.err)]
       ELSE [db |-> u.db, product |-> product, err |-> Nil]

\* DeleteProduct up to its repository write: [ok, err]
DeleteProductFetch(db, productID, userID) ==
    LET g == GetProductByID(db, productID)
    IN IF g.err # Nil
       THEN [ok |-> FALSE, err |-> Wrap("product not found", g.err)]
       ELSE IF ~IsOwner(g.product, userID)
       THEN [ok |-> FALSE, err |-> <<"you are not authorized to delete this product">>]
       ELSE [ok |-> TRUE, err |-> Nil]

\* DeleteProduct from its repository write on: [db, err]
DeleteProductWrite(db, productID) ==
    LET d == RepoDeleteProduct(db, productID)
    IN IF d.err # Nil
       THEN [db |-> d.db, err |-> Wrap("failed to delete product", d.err)]
       ELSE [db |-> d.db, err |-> Nil]

\* ------------------------------------------------ password hashing

\* bcrypt.GenerateFromPassword: the hash is a value that is not the password
GenerateFromPassword(password) == <<"$2a$10$", password>>

\* CompareHashAndPassword accepting every password
CompareHashAndPasswordAny(hash, password) == Nil

\* bcrypt.CompareHashAndPassword: nil when the hash was made from the password
CompareHashAndPassword(hash, password) ==
    IF hash = GenerateFromPassword(password) THEN Nil
    ELSE <<"crypto/bcrypt: hashedPassword is not the hash of the given password">>

\* --------------------------------------------- repository: users

\* table users without its UNIQUE constraints
UniqueUserNone(db, user) == TRUE

\* UNIQUE (username), UNIQUE (email) of table users
UniqueUser(db, user) ==
    \A u \in db : u.Username # user.Username /\ u.Email # user.Email

\* postgresUserRepository.CreateUser: [db, seq, id, err]
CreateUser(db, seq, user) ==
    LET newID == seq + 1
    IN IF UniqueUser(db, user)
       THEN [db |-> db \cup {[user EXCEPT !.ID = newID]}, seq |-> newID,
             id |-> newID, err |-> Nil]
       ELSE [db |-> db, seq |-> newID, id |-> user.ID,
             err |-> <<"failed to create user", "unique constraint violation">>]

\* postgresUserRepository.GetUserByEmail: [found, user, err]; found is "user != nil"
GetUserByEmail(db, email) ==
    LET user == ScanRow({u \in db : u.Email = email}, ZeroUser)
    IN IF user.ID = 0
       THEN [found |-> FALSE, user |-> ZeroUser,
             err |-> <<"database error retrieving user by email">>]
       ELSE [found |-> TRUE, user |-> user, err |-> Nil]

\* postgresUserRepository.GetUserByID: [found, user, err]
GetUserByID(db, id) ==
    [found |-> TRUE, user |-> ScanRow({u \in db : u.ID = id}, ZeroUser), err |-> Nil]

\* --------------------------------------------------- token service

\* JWTManager.secretKey (cfg.SecretKey)
SecretKey == "server-secret"

\* keys a token may have been signed with
Keys == {SecretKey, "other-secret"}

HMACAlgs == {"HS256", "HS512"}

\* the algorithms the jwt library has registered
Algs == HMACAlgs \cup {"RS256", "none"}

\* the zero value of auth.Claims
ZeroClaims == [UserID |-> <<>>, Subject |-> <<>>, ExpiresAt |-> 0, NotBefore |-> 0,
               IssuedAt |-> 0, Issuer |-> ""]

\* an ideal MAC: the tag names the key and everything it was computed over
HMAC(key, alg, claims) == <<"mac", key, alg, claims>>

\* the empty string, as a token: it has no header.claims.signature structure
NoToken == [wellFormed |-> FALSE, alg |-> "", claims |-> ZeroClaims, sig |-> <<>>]

\* jwt.NewNumericDate: t.Truncate(jwt.TimePrecision), TimePrecision being one second
NewNumericDate(t) == t - (t % TicksPerSecond)

\* GenerateToken with the validity left out of the expiry
GenerateTokenNoValidity(userID, t, d) ==
    LET claims == [UserID |-> userID, Subject |-> userID,
                   ExpiresAt |-> NewNumericDate(t),
                   IssuedAt |-> NewNumericDate(t),
                   NotBefore |-> NewNumericDate(t),
                   Issuer |-> "*"]
    IN [token |-> [wellFormed |-> TRUE, alg |-> "HS256", claims |-> claims,
                   sig |-> HMAC(SecretKey, "HS256", claims)],
        err |-> Nil]

\* JWTManager.GenerateToken, called at time t with validity d: [token, err]
GenerateToken(userID, t, d) ==
    LET claims == [UserID |-> userID, Subject |-> userID,
                   ExpiresAt |-> NewNumericDate(t + d),
                   IssuedAt |-> NewNumericDate(t),
                   NotBefore |-> NewNumericDate(t),
                   Issuer |-> "*"]
    IN [token |-> [wellFormed |-> TRUE, alg |-> "HS256", claims |-> claims,
                   sig |-> HMAC(SecretKey, "HS256", claims)],
        err |-> Nil]

\* Keyfunc answering with whatever key the token names as its signer
KeyfuncTrustsSigner(token) ==
    IF token.alg \notin HMACAlgs
    THEN [key |-> "", err |-> <<"unexpected signing method">>]
    ELSE [key |-> IF Len(token.sig) >= 2 THEN token.sig[2] ELSE SecretKey, err |-> Nil]

\* the key function ValidateToken hands to jwt.ParseWithClaims: [key, err]
Keyfunc(token) ==
    IF token.alg \notin HMACAlgs
    THEN [key |-> "", err |-> <<"unexpected signing method">>]
    ELSE [key |-> SecretKey, err |-> Nil]

\* token.Method.Verify(signingString, sig, key) with a []byte key: only the HMAC
\* methods take a []byte key
MethodVerify(token, key) ==
    IF token.alg \notin HMACAlgs THEN <<"key is of invalid type">>
    ELSE IF token.sig # HMAC(key, token.alg, token.claims) THEN <<"signature is invalid">>
    ELSE Nil

\* ValidateClaims accepting the instant of expiry
ValidateClaimsInclusiveExpiry(claims, t) ==
    IF ~(t <= claims.ExpiresAt) THEN <<"token is expired">>
    ELSE IF t < claims.NotBefore THEN <<"token is not valid yet">>
    ELSE Nil

\* the jwt validator on the registered claims, at time t: exp and nbf (iat is not
\* verified by default)
ValidateClaims(claims, t) ==
    IF ~(t < claims.ExpiresAt) THEN <<"token is expired">>
    ELSE IF t < claims.NotBefore THEN <<"token is not valid yet">>
    ELSE Nil

\* parsing without verification, as Parser.ParseUnverified does
ParseUnverified(token, t) ==
    IF ~token.wellFormed
    THEN [valid |-> FALSE, claims |-> ZeroClaims, err |-> <<"token is malformed">>]
    ELSE [valid |-> TRUE, claims |-> token.claims, err |-> Nil]

\* jwt.ParseWithClaims(tokenString, &Claims{}, keyfunc) at time t: [valid, claims, err]
ParseWithClaims(token, t) ==
    IF ~token.wellFormed
    THEN [valid |-> FALSE, claims |-> ZeroClaims, err |-> <<"token is malformed">>]
    ELSE IF token.alg \notin Algs
    THEN [valid |-> FALSE, claims |-> token.claims, err |-> <<"signing method is unavailable">>]
    ELSE LET k == Keyfunc(token)
         IN IF k.err # Nil
            THEN [valid |-> FALSE, claims |-> token.claims,
                  err |-> Wrap("token is unverifiable", k.err)]
            ELSE IF MethodVerify(token, k.key) # Nil
            THEN [valid |-> FALSE, claims |-> token.claims,
                  err |-> MethodVerify(token, k.key)]
            ELSE IF ValidateClaims(token.claims, t) # Nil
            THEN [valid |-> FALSE, claims |-> token.claims,
                  err |-> ValidateClaims(token.claims, t)]
            ELSE [valid |-> TRUE, claims |-> token.claims, err |-> Nil]

\* JWTManager.ValidateToken at time t: [ok, claims, err]; ok is "claims != nil"
ValidateToken(token, t) ==
    LET p == ParseWithClaims(token, t)
    IN IF p.err # Nil
       THEN [ok |-> FALSE, claims |-> ZeroClaims, err |-> Wrap("invalid token", p.err)]
       ELSE IF ~p.valid
       THEN [ok |-> FALSE, claims |-> ZeroClaims, err |-> <<"token is invalid">>]
       ELSE [ok |-> TRUE, claims |-> p.claims, err |-> Nil]

\* ------------------------------------------------- service: users

\* RegisterUser without the lookup by email
RegisterUserNoEmailCheck(db, seq, req) ==
    LET user == [ID |-> 0, Username |-> req.Username, Email |-> req.Email,
                 Password |-> GenerateFromPassword(req.Password)]
        c == CreateUser(db, seq, user)
    IN IF c.err # Nil
       THEN [db |-> c.db, seq |-> c.seq, user |-> ZeroUser,
             err |-> Wrap("failed to register user", c.err)]
       ELSE [db |-> c.db, seq |-> c.seq, user |-> [user EXCEPT !.ID = c.id],
             err |-> Nil]

\* userService.RegisterUser: [db, seq, user, err]
RegisterUser(db, seq, req) ==
    LET e == GetUserByEmail(db, req.Email)
    IN IF e.err = Nil /\ e.found
       THEN [db |-> db, seq |-> seq, user |-> ZeroUser,
             err |-> <<"user with this email already exists">>]
       ELSE LET user == [ID |-> 0, Username |-> req.Username, Email |-> req.Email,
                         Password |-> GenerateFromPassword(req.Password)]
                c == CreateUser(db, seq, user)
            IN IF c.err # Nil
               THEN [db |-> c.db, seq |-> c.seq, user |-> ZeroUser,
                     err |-> Wrap("failed to register user", c.err)]
               ELSE [db |-> c.db, seq |-> c.seq, user |-> [user EXCEPT !.ID = c.id],
                     err |-> Nil]

\* the first statement of RegisterUser, the lookup by email: TRUE when an
\* account was found
RegisterUserLookup(db, req) ==
    LET e == GetUserByEmail(db, req.Email)
    IN e.err = Nil /\ e.found

\* RegisterUserCreate reporting every failed insert as a duplicate email
RegisterUserCreateSaysExists(db, seq, req) ==
    LET user == [ID |-> 0, Username |-> req.Username, Email |-> req.Email,
                 Password |-> GenerateFromPassword(req.Password)]
        c == CreateUser(db, seq, user)
    IN IF c.err # Nil
       THEN [db |-> c.db, seq |-> c.seq, user |-> ZeroUser,
             err |-> <<"user with this email already exists">>]
       ELSE [db |-> c.db, seq |-> c.seq, user |-> [user EXCEPT !.ID = c.id],
             err |-> Nil]

\* the rest of RegisterUser, from the hashing to the insert: [db, seq, user, err]
RegisterUserCreate(db, seq, req) ==
    LET user == [ID |-> 0, Username |-> req.Username, Email |-> req.Email,
                 Password |-> GenerateFromPassword(req.Password)]
        c == CreateUser(db, seq, user)
    IN IF c.err # Nil
       THEN [db |-> c.db, seq |-> c.seq, user |-> ZeroUser,
             err |-> Wrap("failed to register user", c.err)]
       ELSE [db |-> c.db, seq |-> c.seq, user |-> [user EXCEPT !.ID = c.id],
             err |-> Nil]

\* LoginUser passing the repository's error on for an unknown email
LoginUserTellsUnknownEmail(db, req, t, d) ==
    LET e == GetUserByEmail(db, req.Email)
    IN IF e.err # Nil
       THEN [token |-> NoToken, err |-> Wrap("user not found", e.err)]
       ELSE IF CompareHashAndPassword(e.user.Password, req.Password) # Nil
       THEN [token |-> NoToken, err |-> <<"invalid credentials">>]
       ELSE [token |-> GenerateToken(FormatUint(e.user.ID), t, d).token, err |-> Nil]

\* userService.LoginUser at time t with validity d: [token, err]
LoginUser(db, req, t, d) ==
    LET e == GetUserByEmail(db, req.Email)
    IN IF e.err # Nil
       THEN [token |-> NoToken, err |-> <<"invalid credentials">>]
       ELSE IF CompareHashAndPassword(e.user.Password, req.Password) # Nil
       THEN [token |-> NoToken, err |-> <<"invalid credentials">>]
       ELSE LET g == GenerateToken(FormatUint(e.user.ID), t, d)
            IN IF g.err # Nil
               THEN [token |-> NoToken, err |-> Wrap("failed to generate token", g.err)]
               ELSE [token |-> g.token, err |-> Nil]

\* userService.GetUserProfile: [user, err]
GetUserProfile(db, userID) ==
    LET r == GetUserByID(db, userID)
    IN IF r.err # Nil
       THEN [user |-> ZeroUser, err |-> Wrap("user not found", r.err)]
       ELSE [user |-> r.user, err |-> Nil]

\* ------------------------------------------------------- the HTTP API

\* gin.H{"error": msg} under a status code: [status, body, called]
Refuse(status, msg) == [status |-> status, body |-> [error |-> msg], called |-> ""]

\* AuthMiddleware without the test of parts[0]: any scheme passes
AuthMiddlewareAnyScheme(parts, t) ==
    IF parts = <<>>
    THEN [next |-> FALSE, status |-> 401,
          body |-> [error |-> "Authorization header missing"], userID |-> <<>>]
    ELSE IF Len(parts) # 2
    THEN [next |-> FALSE, status |-> 401,
          body |-> [error |-> "Invalid Authorization header format"], userID |-> <<>>]
    ELSE LET v == ValidateToken(parts[2], t)
         IN IF v.err # Nil
            THEN [next |-> FALSE, status |-> 401,
                  body |-> [error |-> "Invalid or expired token"], userID |-> <<>>]
            ELSE [next |-> TRUE, status |-> 0, body |-> <<>>, userID |-> v.claims.UserID]

\* middleware.AuthMiddleware on the Authorization header split at " ":
\* [next, status, body, userID]; next is c.Next() being reached
AuthMiddleware(parts, t) ==
    IF parts = <<>>
    THEN [next |-> FALSE, status |-> 401,
          body |-> [error |-> "Authorization header missing"], userID |-> <<>>]
    ELSE IF Len(parts) # 2 \/ parts[1] # "Bearer"
    THEN [next |-> FALSE, status |-> 401,
          body |-> [error |-> "Invalid Authorization header format"], userID |-> <<>>]
    ELSE LET v == ValidateToken(parts[2], t)
         IN IF v.err # Nil
            THEN [next |-> FALSE, status |-> 401,
                  body |-> [error |-> "Invalid or expired token"], userID |-> <<>>]
            ELSE [next |-> TRUE, status |-> 0, body |-> <<>>, userID |-> v.claims.UserID]

\* ShouldBindJSON into AddProductRequest with the price tag cut to "required"
BindAddProductRequestRequiredOnly(req) ==
    IF req.Name = "" THEN <<"Field validation for 'Name' failed on the 'required' tag">>
    ELSE IF req.Price = 0
    THEN <<"Field validation for 'Price' failed on the 'required' tag">>
    ELSE Nil

\* ShouldBindJSON into AddProductRequest: name "required", price "required,gt=0"
BindAddProductRequest(req) ==
    IF req.Name = "" THEN <<"Field validation for 'Name' failed on the 'required' tag">>
    ELSE IF req.Price = 0
    THEN <<"Field validation for 'Price' failed on the 'required' tag">>
    ELSE IF ~(req.Price > 0)
    THEN <<"Field validation for 'Price' failed on the 'gt' tag">>
    ELSE Nil

\* productHandler.AddProduct on context c = [userID, param, req]:
\* [db, seq, status, body, called]
HandlerAddProduct(db, seq, userRows, c) ==
    LET id == ParseUint(c.userID)
        r == AddProduct(db, seq, userRows, id.val, c.req)
    IN IF id.err # Nil
       THEN [db |-> db, seq |-> seq] @@ Refuse(500, "Invalid user ID format")
       ELSE IF BindAddProductRequest(c.req) # Nil
       THEN [db |-> db, seq |-> seq]
            @@ Refuse(400, Head(BindAddProductRequest(c.req)))
       ELSE IF r.err # Nil
       THEN [db |-> r.db, seq |-> r.seq, status |-> 500,
             body |-> [error |-> "Failed to add product"], called |-> "AddProduct"]
       ELSE [db |-> r.db, seq |-> r.seq, status |-> 201, body |-> r.product,
             called |-> "AddProduct"]

\* GetProduct answering the product's owner only
HandlerGetProductOwnerOnly(db, c) ==
    LET id == ParseUint(c.param)
        r == GetProduct(db, id.val)
    IN IF c.param = <<>> THEN Refuse(400, "Product ID is required")
       ELSE IF id.err # Nil THEN Refuse(400, "Invalid product ID format")
       ELSE IF r.err # Nil
       THEN [status |-> 404, body |-> [error |-> "Product not found"],
             called |-> "GetProduct"]
       ELSE IF FormatUint(r.product.UserID) # c.userID
       THEN [status |-> 403, body |-> [error |-> "Forbidden"], called |-> "GetProduct"]
       ELSE [status |-> 200, body |-> r.product, called |-> "GetProduct"]

\* productHandler.GetProduct: [status, body, called]
HandlerGetProduct(db, c) ==
    LET id == ParseUint(c.param)
        r == GetProduct(db, id.val)
    IN IF c.param = <<>> THEN Refuse(400, "Product ID is required")
       ELSE IF id.err # Nil THEN Refuse(400, "Invalid product ID format")
       ELSE IF r.err # Nil
       THEN [status |-> 404, body |-> [error |-> "Product not found"],
             called |-> "GetProduct"]
       ELSE [status |-> 200, body |-> r.product, called |-> "GetProduct"]

\* productHandler.GetProducts: [status, body, called]
HandlerGetProducts(db, c) ==
    LET id == ParseUint(c.userID)
        r == GetProductsByOwner(db, id.val)
    IN IF id.err # Nil THEN Refuse(500, "Invalid user ID format")
       ELSE IF r.err # Nil
       THEN [status |-> 500, body |-> [error |-> "Failed to retrieve products"],
             called |-> "GetProductsByOwner"]
       ELSE [status |-> 200, body |-> r.products, called |-> "GetProductsByOwner"]

\* GetUser answering with the whole models.User
HandlerGetUserWholeUser(db, c) ==
    LET id == ParseUint(c.userID)
        r == GetUserProfile(db, id.val)
    IN IF id.err # Nil THEN Refuse(500, "Invalid user ID format")
       ELSE IF r.err # Nil
       THEN [status |-> 404, body |-> [error |-> "User not found"],
             called |-> "GetUserProfile"]
       ELSE [status |-> 200, body |-> r.user, called |-> "GetUserProfile"]

\* userHandler.GetUser: [status, body, called]
HandlerGetUser(db, c) ==
    LET id == ParseUint(c.userID)
        r == GetUserProfile(db, id.val)
    IN IF id.err # Nil THEN Refuse(500, "Invalid user ID format")
       ELSE IF r.err # Nil
       THEN [status |-> 404, body |-> [error |-> "User not found"],
             called |-> "GetUserProfile"]
       ELSE [status |-> 200,
             body |-> [id |-> r.user.ID, username |-> r.user.Username,
                       email |-> r.user.Email],
             called |-> "GetUserProfile"]

\* err.Error() == msg: an error that wraps another never equals a bare message
ErrorIs(err, msg) == err = <<msg>>

\* ShouldBindJSON into UpdateProductRequest: price "omitempty,gt=0"
BindUpdateProductRequest(req) ==
    IF req.Price # 0 /\ ~(req.Price > 0)
    THEN <<"Field validation for 'Price' failed on the 'gt' tag">>
    ELSE Nil

\* productHandler.UpdateProduct on context c = [userID, param, req]:
\* [db, status, body, called]
HandlerUpdateProduct(db, c) ==
    LET productID == ParseUint(c.param)
        userID == ParseUint(c.userID)
        r == UpdateProduct(db, productID.val, userID.val, c.req)
    IN IF c.param = <<>> THEN [db |-> db] @@ Refuse(400, "Product ID is required")
       ELSE IF productID.err # Nil
       THEN [db |-> db] @@ Refuse(400, "Invalid product ID format")
       ELSE IF userID.err # Nil
       THEN [db |-> db] @@ Refuse(500, "Invalid user ID format")
       ELSE IF BindUpdateProductRequest(c.req) # Nil
       THEN [db |-> db] @@ Refuse(400, Head(BindUpdateProductRequest(c.req)))
       ELSE IF r.err = Nil
       THEN [db |-> r.db, status |-> 200, body |-> r.product, called |-> "UpdateProduct"]
       ELSE IF ErrorIs(r.err, "product not found")
       THEN [db |-> r.db, status |-> 404, body |-> [error |-> "product not found"],
             called |-> "UpdateProduct"]
       ELSE IF ErrorIs(r.err, "you are not authorized to update this product")
       THEN [db |-> r.db, status |-> 403,
             body |-> [error |-> "you are not authorized to update this product"],
             called |-> "UpdateProduct"]
       ELSE [db |-> r.db, status |-> 500, body |-> [error |-> "Failed to update product"],
             called |-> "UpdateProduct"]

\* productHandler.DeleteProduct: [db, status, body, called]
HandlerDeleteProduct(db, c) ==
    LET productID == ParseUint(c.param)
        userID == ParseUint(c.userID)
        r == DeleteProduct(db, productID.val, userID.val)
    IN IF c.param = <<>> THEN [db |-> db] @@ Refuse(400, "Product ID is required")
       ELSE IF productID.err # Nil
       THEN [db |-> db] @@ Refuse(400, "Invalid product ID format")
       ELSE IF userID.err # Nil
       THEN [db |-> db] @@ Refuse(500, "Invalid user ID format")
       ELSE IF r.err = Nil
       THEN [db |-> r.db, status |-> 204, body |-> <<>>, called |-> "DeleteProduct"]
       ELSE IF ErrorIs(r.err, "product not found")
       THEN [db |-> r.db, status |-> 404, body |-> [error |-> "product not found"],
             called |-> "DeleteProduct"]
       ELSE IF ErrorIs(r.err, "you are not authorized to delete this product")
       THEN [db |-> r.db, status |-> 403,
             body |-> [error |-> "you are not authorized to delete this product"],
             called |-> "DeleteProduct"]
       ELSE [db |-> r.db, status |-> 500, body |-> [error |-> "Failed to delete product"],
             called |-> "DeleteProduct"]

\* the e-mail addresses the validator's "email" tag accepts
IsEmail(email) == email \in Emails

\* len(password) of the passwords in use
PasswordLen(password) ==
    IF password = "" THEN 0 ELSE IF password = "abc" THEN 3 ELSE 7

\* the "min" of RegisterRequest.Password
MinPasswordLen == 6

\* ShouldBindJSON into RegisterRequest: username "required", email
\* "required,email", password "required,min=6"
BindRegisterRequest(req) ==
    IF req.Username = ""
    THEN <<"Field validation for 'Username' failed on the 'required' tag">>
    ELSE IF req.Email = ""
    THEN <<"Field validation for 'Email' failed on the 'required' tag">>
    ELSE IF ~IsEmail(req.Email)
    THEN <<"Field validation for 'Email' failed on the 'email' tag">>
    ELSE IF req.Password = ""
    THEN <<"Field validation for 'Password' failed on the 'required' tag">>
    ELSE IF PasswordLen(req.Password) < MinPasswordLen
    THEN <<"Field validation for 'Password' failed on the 'min' tag">>
    ELSE Nil

\* ShouldBindJSON into LoginRequest: email "required,email", password "required"
BindLoginRequest(req) ==
    IF req.Email = ""
    THEN <<"Field validation for 'Email' failed on the 'required' tag">>
    ELSE IF ~IsEmail(req.Email)
    THEN <<"Field validation for 'Email' failed on the 'email' tag">>
    ELSE IF req.Password = ""
    THEN <<"Field validation for 'Password' failed on the 'required' tag">>
    ELSE Nil

\* userHandler.Register: [db, seq, user, status, body, called]
HandlerRegister(db, seq, req) ==
    LET r == RegisterUser(db, seq, req)
    IN IF BindRegisterRequest(req) # Nil
       THEN [db |-> db, seq |-> seq, user |-> ZeroUser]
            @@ Refuse(400, Head(BindRegisterRequest(req)))
       ELSE IF r.err = Nil
       THEN [db |-> r.db, seq |-> r.seq, user |-> r.user, status |-> 201,
             body |-> [message |-> "User registered successfully", id |-> r.user.ID,
                       username |-> r.user.Username, email |-> r.user.Email],
             called |-> "RegisterUser"]
       ELSE IF ErrorIs(r.err, "user with this email already exists")
       THEN [db |-> r.db, seq |-> r.seq, user |-> ZeroUser, status |-> 409,
             body |-> [error |-> "user with this email already exists"],
             called |-> "RegisterUser"]
       ELSE [db |-> r.db, seq |-> r.seq, user |-> ZeroUser, status |-> 500,
             body |-> [error |-> "Failed to register user"], called |-> "RegisterUser"]

\* userHandler.Login: [token, status, body, called]
HandlerLogin(db, req, t, d) ==
    LET r == LoginUser(db, req, t, d)
    IN IF BindLoginRequest(req) # Nil
       THEN [token |-> NoToken] @@ Refuse(400, Head(BindLoginRequest(req)))
       ELSE IF r.err # Nil
       THEN [token |-> NoToken, status |-> 401, body |-> [error |-> Head(r.err)],
             called |-> "LoginUser"]
       ELSE [token |-> r.token, status |-> 200, body |-> [token |-> r.token],
             called |-> "LoginUser"]

\* ------------------------------------------------------- the calls

\* subjects a token may carry: decimal identifiers and one that is no number
Subjects == {FormatUint(12), <<"x">>}

\* validity durations the service may be configured with: at least one second
Durations == TicksPerSecond..MaxDuration

\* the record of a call before any call was made
NoCall ==
    [op |-> "init", at |-> 0, userID |-> 0, productID |-> 0, req |-> ZeroRequest,
     username |-> "", email |-> "", password |-> "", subject |-> <<>>,
     token |-> NoToken, err |-> Nil, product |-> ZeroProduct, user |-> ZeroUser,
     list |-> {}, claims |-> ZeroClaims, productsBefore |-> {}, usersBefore |-> {},
     header |-> <<>>, param |-> <<>>, authenticated |-> FALSE, status |-> 0,
     body |-> <<>>, called |-> ""]

\* no token was issued yet
NotHeld == [token |-> NoToken, at |-> 0, issued |-> FALSE]

\* claims of tokens made outside the service, presented at time t
ForgedClaims(t) ==
    {[UserID |-> s, Subject |-> s, ExpiresAt |-> NewNumericDate(t) + TicksPerSecond,
      NotBefore |-> n, IssuedAt |-> n, Issuer |-> "*"] :
        s \in {FormatUint(1)}, n \in {NewNumericDate(t), NewNumericDate(t) + TicksPerSecond}}

\* the signature a party holding key puts under alg and claims
SignWith(key, alg, claims) ==
    IF alg \in HMACAlgs THEN HMAC(key, alg, claims)
    ELSE IF alg = "none" THEN <<>>
    ELSE <<"rsa", key, alg, claims>>

\* token strings made outside the service
ForgedTokens(t) ==
    {[wellFormed |-> TRUE, alg |-> a, claims |-> c, sig |-> SignWith(k, a, c)] :
        a \in Algs, k \in Keys, c \in ForgedClaims(t)}

\* what can be made of an issued token without any key: the token itself, the
\* token cut short, its header or claims rewritten under the old signature
Tampered(token) ==
    {token, [token EXCEPT !.wellFormed = FALSE]}
    \cup {[token EXCEPT !.alg = a] : a \in Algs}
    \cup {[token EXCEPT !.claims.UserID = s, !.claims.Subject = s] : s \in Subjects}
    \cup {[token EXCEPT !.claims.ExpiresAt = @ + TicksPerSecond]}

\* the token strings a client may present at time t
Presented(t) ==
    {NoToken} \cup ForgedTokens(t) \cup (IF held.issued THEN Tampered(held.token) ELSE {})

\* a token for account 1 signed with a secret that is not the service's
OtherSecretToken(t) ==
    LET c == [UserID |-> FormatUint(1), Subject |-> FormatUint(1),
              ExpiresAt |-> NewNumericDate(t) + TicksPerSecond,
              NotBefore |-> NewNumericDate(t), IssuedAt |-> NewNumericDate(t),
              Issuer |-> "*"]
    IN [wellFormed |-> TRUE, alg |-> "HS256", claims |-> c,
        sig |-> SignWith("other-secret", "HS256", c)]

\* the Authorization headers a client may send at time t, split at " ": none,
\* the token it holds or a forged one under the schemes Bearer and Basic, and
\* the token it holds followed by a space
RequestHeaders(t) ==
    {<<>>} \cup {<<scheme, token>> : scheme \in {"Bearer", "Basic"},
                                     token \in {held.token, OtherSecretToken(t)}}
           \cup {<<"Bearer", held.token, "">>}

\* the JSON bodies of POST /products
AddBodies == AddRequests \cup {[Name |-> "", Description |-> "", Price |-> 1]}

\* the JSON bodies of POST /register: well-formed ones, one with a short
\* password and one whose email is no address
RegisterBodies ==
    {[Username |-> u, Email |-> e, Password |-> "secret1"] :
         u \in Usernames, e \in Emails}
    \cup {[Username |-> "ann", Email |-> "a@x.io", Password |-> "abc"],
          [Username |-> "ann", Email |-> "nomail", Password |-> "secret1"]}

\* the JSON bodies of POST /login
LoginBodies ==
    {[Email |-> e, Password |-> p] : e \in Emails, p \in Passwords}
    \cup {[Email |-> "a@x.io", Password |-> ""]}

\* the :id path parameters
PathParams == {FormatUint(id) : id \in ProductIDs} \cup {<<"x">>}

\* the requests that may run at the same time
Procs == {"r1", "r2"}

\* a slot with no request in it
Idle ==
    [op |-> "", pc |-> "idle", userID |-> 0, productID |-> 0, req |-> ZeroRequest,
     product |-> ZeroProduct, register |-> [Username |-> "", Email |-> "", Password |-> ""],
     err |-> Nil, wrote |-> FALSE, raced |-> FALSE, found |-> {}, changed |-> {}]

Init ==
    /\ users = {}
    /\ userSeq = 0
    /\ products = {}
    /\ productSeq = 0
    /\ now = 0
    /\ expiresInHour \in Durations
    /\ held = NotHeld
    /\ last = NoCall
    /\ deleted = {}
    /\ registered = {}
    /\ inflight = [p \in Procs |-> Idle]

\* time passes
Tick ==
    /\ now < MaxTime
    /\ now' = now + 1
    /\ UNCHANGED <<inflight, users, userSeq, products, productSeq, expiresInHour, held, last,
                   deleted, registered>>

DoRegisterUser(username, email, password) ==
    LET req == [Username |-> username, Email |-> email, Password |-> password]
        r == RegisterUser(users, userSeq, req)
    IN /\ userSeq < MaxUserID
       /\ users' = r.db
       /\ userSeq' = r.seq
       /\ last' = [NoCall EXCEPT !.op = "RegisterUser", !.at = now,
                       !.username = username, !.email = email, !.password = password,
                       !.user = r.user, !.err = r.err, !.usersBefore = users,
                       !.productsBefore = products]
       /\ registered' = IF r.err = Nil
                        THEN registered \cup {[Email |-> email, Password |-> password,
                                               ID |-> r.user.ID]}
                        ELSE registered
       /\ UNCHANGED <<inflight, products, productSeq, now, expiresInHour, held, deleted>>

DoLoginUser(email, password) ==
    LET r == LoginUser(users, [Email |-> email, Password |-> password], now, expiresInHour)
    IN /\ last' = [NoCall EXCEPT !.op = "LoginUser", !.at = now, !.email = email,
                       !.password = password, !.token = r.token, !.err = r.err,
                       !.usersBefore = users,
                       !.productsBefore = products]
       /\ held' = IF r.err = Nil THEN [token |-> r.token, at |-> now, issued |-> TRUE]
                  ELSE held
       /\ UNCHANGED <<inflight, users, userSeq, products, productSeq, now, expiresInHour,
                      deleted, registered>>

DoGetUserProfile(userID) ==
    LET r == GetUserProfile(users, userID)
    IN /\ last' = [NoCall EXCEPT !.op = "GetUserProfile", !.at = now, !.userID = userID,
                       !.user = r.user, !.err = r.err, !.usersBefore = users,
                       !.productsBefore = products]
       /\ UNCHANGED <<inflight, users, userSeq, products, productSeq, now, expiresInHour, held,
                      deleted, registered>>

DoGenerateToken(userID) ==
    LET r == GenerateToken(userID, now, expiresInHour)
    IN /\ last' = [NoCall EXCEPT !.op = "GenerateToken", !.at = now, !.subject = userID,
                       !.token = r.token, !.err = r.err]
       /\ held' = IF r.err = Nil THEN [token |-> r.token, at |-> now, issued |-> TRUE]
                  ELSE held
       /\ UNCHANGED <<inflight, users, userSeq, products, productSeq, now, expiresInHour,
                      deleted, registered>>

DoValidateToken(token) ==
    LET r == ValidateToken(token, now)
    IN /\ last' = [NoCall EXCEPT !.op = "ValidateToken", !.at = now, !.token = token,
                       !.claims = r.claims, !.err = r.err]
       /\ UNCHANGED <<inflight, users, userSeq, products, productSeq, now, expiresInHour, held,
                      deleted, registered>>

DoAddProduct(userID, req) ==
    LET r == AddProduct(products, productSeq, users, userID, req)
    IN /\ productSeq < MaxProductID
       /\ products' = r.db
       /\ productSeq' = r.seq
       /\ last' = [NoCall EXCEPT !.op = "AddProduct", !.at = now, !.userID = userID,
                       !.req = req, !.product = r.product, !.err = r.err,
                       !.productsBefore = products,
                       !.usersBefore = users]
       /\ UNCHANGED <<inflight, users, userSeq, now, expiresInHour, held, deleted, registered>>

DoGetProduct(productID) ==
    LET r == GetProduct(products, productID)
    IN /\ last' = [NoCall EXCEPT !.op = "GetProduct", !.at = now, !.productID = productID,
                       !.product = r.product, !.err = r.err, !.productsBefore = products,
                       !.usersBefore = users]
       /\ UNCHANGED <<inflight, users, userSeq, products, productSeq, now, expiresInHour, held,
                      deleted, registered>>

DoGetProductsByOwner(userID) ==
    LET r == GetProductsByOwner(products, userID)
    IN /\ last' = [NoCall EXCEPT !.op = "GetProductsByOwner", !.at = now,
                       !.userID = userID, !.list = r.products, !.err = r.err,
                       !.productsBefore = products,
                       !.usersBefore = users]
       /\ UNCHANGED <<inflight, users, userSeq, products, productSeq, now, expiresInHour, held,
                      deleted, registered>>

DoUpdateProduct(productID, userID, req) ==
    LET r == UpdateProduct(products, productID, userID, req)
    IN /\ products' = r.db
       /\ last' = [NoCall EXCEPT !.op = "UpdateProduct", !.at = now,
                       !.productID = productID, !.userID = userID, !.req = req,
                       !.product = r.product, !.err = r.err, !.productsBefore = products,
                       !.usersBefore = users]
       /\ UNCHANGED <<inflight, users, userSeq, productSeq, now, expiresInHour, held, deleted,
                      registered>>

DoDeleteProduct(productID, userID) ==
    LET r == DeleteProduct(products, productID, userID)
    IN /\ products' = r.db
       /\ last' = [NoCall EXCEPT !.op = "DeleteProduct", !.at = now,
                       !.productID = productID, !.userID = userID, !.err = r.err,
                       !.productsBefore = products,
                       !.usersBefore = users]
       /\ deleted' = IF r.err = Nil THEN deleted \cup {productID} ELSE deleted
       /\ UNCHANGED <<inflight, users, userSeq, productSeq, now, expiresInHour, held, registered>>

\* POST /api/v1/products: AuthMiddleware, then productHandler.AddProduct
ServeAddProduct(header, req) ==
    LET a == AuthMiddleware(header, now)
        c == [userID |-> a.userID, param |-> <<>>, req |-> req]
        h == HandlerAddProduct(products, productSeq, users, c)
        r == IF a.next THEN h
             ELSE [db |-> products, seq |-> productSeq, status |-> a.status,
                   body |-> a.body, called |-> ""]
    IN /\ r.called = "" \/ productSeq < MaxProductID
       /\ products' = r.db
       /\ productSeq' = r.seq
       /\ last' = [NoCall EXCEPT !.op = "POST /products", !.at = now,
                       !.header = header, !.authenticated = a.next,
                       !.subject = a.userID, !.req = req, !.status = r.status,
                       !.body = r.body, !.called = r.called,
                       !.productsBefore = products, !.usersBefore = users]
       /\ UNCHANGED <<inflight, users, userSeq, now, expiresInHour, held, deleted, registered>>

\* GET /api/v1/products/:id: AuthMiddleware, then productHandler.GetProduct
ServeGetProduct(header, param) ==
    LET a == AuthMiddleware(header, now)
        c == [userID |-> a.userID, param |-> param, req |-> ZeroRequest]
        r == IF a.next THEN HandlerGetProduct(products, c)
             ELSE [status |-> a.status, body |-> a.body, called |-> ""]
    IN /\ last' = [NoCall EXCEPT !.op = "GET /products/:id", !.at = now,
                       !.header = header, !.authenticated = a.next,
                       !.subject = a.userID, !.param = param, !.status = r.status,
                       !.body = r.body, !.called = r.called,
                       !.productsBefore = products, !.usersBefore = users]
       /\ UNCHANGED <<inflight, users, userSeq, products, productSeq, now, expiresInHour, held,
                      deleted, registered>>

\* GET /api/v1/products: AuthMiddleware, then productHandler.GetProducts
ServeGetProducts(header) ==
    LET a == AuthMiddleware(header, now)
        c == [userID |-> a.userID, param |-> <<>>, req |-> ZeroRequest]
        r == IF a.next THEN HandlerGetProducts(products, c)
             ELSE [status |-> a.status, body |-> a.body, called |-> ""]
    IN /\ last' = [NoCall EXCEPT !.op = "GET /products", !.at = now,
                       !.header = header, !.authenticated = a.next,
                       !.subject = a.userID, !.status = r.status,
                       !.body = r.body, !.called = r.called,
                       !.productsBefore = products, !.usersBefore = users]
       /\ UNCHANGED <<inflight, users, userSeq, products, productSeq, now, expiresInHour, held,
                      deleted, registered>>

\* GET /api/v1/user: AuthMiddleware, then userHandler.GetUser
ServeGetUser(header) ==
    LET a == AuthMiddleware(header, now)
        c == [userID |-> a.userID, param |-> <<>>, req |-> ZeroRequest]
        r == IF a.next THEN HandlerGetUser(users, c)
             ELSE [status |-> a.status, body |-> a.body, called |-> ""]
    IN /\ last' = [NoCall EXCEPT !.op = "GET /user", !.at = now,
                       !.header = header, !.authenticated = a.next,
                       !.subject = a.userID, !.status = r.status,
                       !.body = r.body, !.called = r.called,
                       !.productsBefore = products, !.usersBefore = users]
       /\ UNCHANGED <<inflight, users, userSeq, products, productSeq, now, expiresInHour, held,
                      deleted, registered>>

\* PUT /api/v1/products/:id: AuthMiddleware, then productHandler.UpdateProduct
ServeUpdateProduct(header, param, req) ==
    LET a == AuthMiddleware(header, now)
        c == [userID |-> a.userID, param |-> param, req |-> req]
        r == IF a.next THEN HandlerUpdateProduct(products, c)
             ELSE [db |-> products, status |-> a.status, body |-> a.body, called |-> ""]
    IN /\ products' = r.db
       /\ last' = [NoCall EXCEPT !.op = "PUT /products/:id", !.at = now,
                       !.header = header, !.authenticated = a.next,
                       !.subject = a.userID, !.param = param, !.req = req,
                       !.status = r.status, !.body = r.body, !.called = r.called,
                       !.productsBefore = products, !.usersBefore = users]
       /\ UNCHANGED <<inflight, users, userSeq, productSeq, now, expiresInHour, held,
                      deleted, registered>>

\* DELETE /api/v1/products/:id: AuthMiddleware, then productHandler.DeleteProduct
ServeDeleteProduct(header, param) ==
    LET a == AuthMiddleware(header, now)
        c == [userID |-> a.userID, param |-> param, req |-> ZeroRequest]
        r == IF a.next THEN HandlerDeleteProduct(products, c)
             ELSE [db |-> products, status |-> a.status, body |-> a.body, called |-> ""]
    IN /\ products' = r.db
       /\ last' = [NoCall EXCEPT !.op = "DELETE /products/:id", !.at = now,
                       !.header = header, !.authenticated = a.next,
                       !.subject = a.userID, !.param = param,
                       !.status = r.status, !.body = r.body, !.called = r.called,
                       !.productsBefore = products, !.usersBefore = users]
       /\ deleted' = IF r.status = 204 THEN deleted \cup {ParseUint(param).val}
                     ELSE deleted
       /\ UNCHANGED <<inflight, users, userSeq, productSeq, now, expiresInHour, held,
                      registered>>

\* POST /api/v1/register: userHandler.Register
ServeRegister(req) ==
    LET r == HandlerRegister(users, userSeq, req)
    IN /\ r.called = "" \/ userSeq < MaxUserID
       /\ users' = r.db
       /\ userSeq' = r.seq
       /\ last' = [NoCall EXCEPT !.op = "POST /register", !.at = now,
                       !.username = req.Username, !.email = req.Email,
                       !.password = req.Password, !.user = r.user,
                       !.status = r.status, !.body = r.body, !.called = r.called,
                       !.productsBefore = products, !.usersBefore = users]
       /\ registered' = IF r.status = 201
                        THEN registered \cup {[Email |-> req.Email,
                                               Password |-> req.Password,
                                               ID |-> r.user.ID]}
                        ELSE registered
       /\ UNCHANGED <<inflight, products, productSeq, now, expiresInHour, held, deleted>>

\* POST /api/v1/login: userHandler.Login
ServeLogin(req) ==
    LET r == HandlerLogin(users, req, now, expiresInHour)
    IN /\ last' = [NoCall EXCEPT !.op = "POST /login", !.at = now,
                       !.email = req.Email, !.password = req.Password,
                       !.token = r.token, !.status = r.status, !.body = r.body,
                       !.called = r.called,
                       !.productsBefore = products, !.usersBefore = users]
       /\ held' = IF r.status = 200 THEN [token |-> r.token, at |-> now, issued |-> TRUE]
                  ELSE held
       /\ UNCHANGED <<inflight, users, userSeq, products, productSeq, now, expiresInHour,
                      deleted, registered>>

\* history: the calls that, like p, passed the lookup for p's email and have
\* not inserted yet
Overlapping(p) ==
    {q \in Procs \ {p} :
        /\ inflight[q].pc = "insert"
        /\ inflight[q].register.Email = inflight[p].register.Email}

\* a RegisterUser call runs its lookup by email
RegisterLookup(p, username, email) ==
    LET req == [Username |-> username, Email |-> email, Password |-> "secret1"]
    IN /\ inflight[p].pc \in {"idle", "done"}
       /\ userSeq < MaxUserID
       /\ inflight' =
              [inflight EXCEPT ![p] =
                  IF RegisterUserLookup(users, req)
                  THEN [Idle EXCEPT !.op = "RegisterUser", !.pc = "done",
                                    !.register = req,
                                    !.err = <<"user with this email already exists">>]
                  ELSE [Idle EXCEPT !.op = "RegisterUser", !.pc = "insert",
                                    !.register = req]]
       /\ UNCHANGED <<users, userSeq, products, productSeq, now, expiresInHour, held,
                      last, deleted, registered>>

\* a RegisterUser call that passed its lookup runs its insert
RegisterInsert(p) ==
    LET r == RegisterUserCreate(users, userSeq, inflight[p].register)
    IN /\ inflight[p].pc = "insert"
       /\ users' = r.db
       /\ userSeq' = r.seq
       /\ inflight' =
              [q \in Procs |->
                  IF q = p
                  THEN [inflight[p] EXCEPT !.pc = "done", !.err = r.err, !.wrote = TRUE,
                                           !.changed = r.db \ users,
                                           !.raced = @ \/ Overlapping(p) # {}]
                  ELSE IF q \in Overlapping(p)
                  THEN [inflight[q] EXCEPT !.raced = TRUE]
                  ELSE inflight[q]]
       /\ registered' = IF r.err = Nil
                        THEN registered \cup {[Email |-> r.user.Email,
                                               Password |-> inflight[p].register.Password,
                                               ID |-> r.user.ID]}
                        ELSE registered
       /\ UNCHANGED <<products, productSeq, now, expiresInHour, held, last, deleted>>

\* an UpdateProduct call runs its fetch, authorization check and patch; a
\* call refused there returns at once and leaves its slot empty
UpdateFetch(p, productID, userID, req) ==
    LET r == UpdateProductFetch(products, productID, userID, req)
    IN /\ inflight[p].pc \in {"idle", "done"}
       /\ inflight' =
              [inflight EXCEPT ![p] =
                  IF r.ok
                  THEN [Idle EXCEPT !.op = "UpdateProduct", !.pc = "write",
                                    !.productID = productID, !.userID = userID,
                                    !.req = req, !.product = r.product]
                  ELSE Idle]
       /\ UNCHANGED <<users, userSeq, products, productSeq, now, expiresInHour, held,
                      last, deleted, registered>>

\* an UpdateProduct call that passed its check runs its UPDATE
UpdateWrite(p) ==
    LET r == UpdateProductWrite(products, inflight[p].product)
    IN /\ inflight[p].op = "UpdateProduct"
       /\ inflight[p].pc = "write"
       /\ products' = r.db
       /\ inflight' =
              [inflight EXCEPT ![p].pc = "done", ![p].err = r.err, ![p].wrote = TRUE,
                               ![p].found = {x.ID : x \in {y \in products :
                                                       y.ID = inflight[p].product.ID}},
                               ![p].changed = {x.UserID : x \in products \ r.db}]
       /\ UNCHANGED <<users, userSeq, productSeq, now, expiresInHour, held, last,
                      deleted, registered>>

\* a DeleteProduct call runs its fetch and authorization check; a call
\* refused there returns at once and leaves its slot empty
DeleteFetch(p, productID, userID) ==
    LET r == DeleteProductFetch(products, productID, userID)
    IN /\ inflight[p].pc \in {"idle", "done"}
       /\ inflight' =
              [inflight EXCEPT ![p] =
                  IF r.ok
                  THEN [Idle EXCEPT !.op = "DeleteProduct", !.pc = "write",
                                    !.productID = productID, !.userID = userID]
                  ELSE Idle]
       /\ UNCHANGED <<users, userSeq, products, productSeq, now, expiresInHour, held,
                      last, deleted, registered>>

\* a DeleteProduct call that passed its check runs its DELETE
DeleteWrite(p) ==
    LET r == DeleteProductWrite(products, inflight[p].productID)
    IN /\ inflight[p].op = "DeleteProduct"
       /\ inflight[p].pc = "write"
       /\ products' = r.db
       /\ inflight' =
              [inflight EXCEPT ![p].pc = "done", ![p].err = r.err, ![p].wrote = TRUE,
                               ![p].found = {x.ID : x \in {y \in products :
                                                       y.ID = inflight[p].productID}},
                               ![p].changed = {x.UserID : x \in products \ r.db}]
       /\ deleted' = IF r.err = Nil THEN deleted \cup {inflight[p].productID}
                     ELSE deleted
       /\ UNCHANGED <<users, userSeq, productSeq, now, expiresInHour, held, last,
                      registered>>

\* the account service
NextUser ==
    \/ \E u \in Usernames, e \in Emails, p \in Passwords : DoRegisterUser(u, e, p)
    \/ \E e \in Emails, p \in Passwords : DoLoginUser(e, p)
    \/ \E id \in CallerIDs : DoGetUserProfile(id)

\* the token service
NextToken ==
    \/ Tick
    \/ \E s \in Subjects : DoGenerateToken(s)
    \/ \E token \in Presented(now) : DoValidateToken(token)

\* the resource service
NextProduct ==
    \/ \E id \in CallerIDs, req \in AddRequests : DoAddProduct(id, req)
    \/ \E id \in ProductIDs : DoGetProduct(id)
    \/ \E id \in CallerIDs : DoGetProductsByOwner(id)
    \/ \E id \in ProductIDs, caller \in CallerIDs, req \in UpdateRequests :
           DoUpdateProduct(id, caller, req)
    \/ \E id \in ProductIDs, caller \in CallerIDs : DoDeleteProduct(id, caller)

\* accounts registering with one fixed username and password per email
NextSignup ==
    \E e \in Emails :
        DoRegisterUser(IF e = "a@x.io" THEN "ann" ELSE "bob", e, "secret1")

\* logging in with the password of NextSignup
NextSignin == \E e \in Emails : DoLoginUser(e, "secret1")

\* tokens signed by the service for the subjects of Subjects
NextIssue == \E s \in Subjects : DoGenerateToken(s)

\* the authenticated routes that read, and the one that creates
NextAPI ==
    \/ \E h \in RequestHeaders(now), req \in AddBodies : ServeAddProduct(h, req)
    \/ \E h \in RequestHeaders(now), param \in PathParams : ServeGetProduct(h, param)
    \/ \E h \in RequestHeaders(now) : ServeGetProducts(h)
    \/ \E h \in RequestHeaders(now) : ServeGetUser(h)

\* every authenticated route under every header, with one body that binds
NextRoutes ==
    \/ \E h \in RequestHeaders(now) :
           ServeAddProduct(h, [Name |-> "widget", Description |-> "", Price |-> 1])
    \/ \E h \in RequestHeaders(now), param \in PathParams : ServeGetProduct(h, param)
    \/ \E h \in RequestHeaders(now) : ServeGetProducts(h)
    \/ \E h \in RequestHeaders(now) : ServeGetUser(h)
    \/ \E h \in RequestHeaders(now), param \in PathParams :
           ServeUpdateProduct(h, param, [Name |-> "gadget", Description |-> "", Price |-> 0])
    \/ \E h \in RequestHeaders(now), param \in PathParams : ServeDeleteProduct(h, param)

\* the public routes
NextAPIPublic ==
    \/ \E req \in RegisterBodies : ServeRegister(req)
    \/ \E req \in LoginBodies : ServeLogin(req)

\* RegisterUser calls running at the same time
NextRegisterRace ==
    \/ \E p \in Procs, u \in Usernames, e \in Emails : RegisterLookup(p, u, e)
    \/ \E p \in Procs : RegisterInsert(p)

\* the patches of the racing updates: a new name only, a new price only
RaceRequests ==
    {req \in UpdateRequests :
        req.Description = "" /\ req.Price >= 0 /\ (req.Name = "") # (req.Price = 0)}

\* the callers of the racing calls: the stored accounts and the zero id
RaceCallers == {0} \cup {u.ID : u \in users}

\* accounts signing up once each and one product at a time being created while
\* UpdateProduct and DeleteProduct calls on it run at the same time
NextProductRace ==
    \/ \E e \in Emails :
           /\ \A u \in users : u.Email # e
           /\ DoRegisterUser(IF e = "a@x.io" THEN "ann" ELSE "bob", e, "secret1")
    \/ /\ products = {}
       /\ \E id \in RaceCallers :
              DoAddProduct(id, [Name |-> "widget", Description |-> "", Price |-> 1])
    \/ \E p \in Procs, id \in ProductIDs, caller \in RaceCallers, req \in RaceRequests :
           UpdateFetch(p, id, caller, req)
    \/ \E p \in Procs : UpdateWrite(p)
    \/ \E p \in Procs, id \in ProductIDs, caller \in RaceCallers :
           DeleteFetch(p, id, caller)
    \/ \E p \in Procs : DeleteWrite(p)

Next == NextUser \/ NextToken \/ NextProduct

\* every service, any order
Spec == Init /\ [][Next]_vars

\* the token service alone
SpecToken == Init /\ [][NextToken]_vars

\* the account service, as time passes
SpecUser == Init /\ [][NextUser \/ Tick]_vars

\* the resource service over the accounts that signed up
SpecProduct == Init /\ [][NextSignup \/ NextProduct]_vars

\* the HTTP API over the accounts that signed up and the tokens they hold
SpecAPI == Init /\ [][NextSignup \/ NextSignin \/ NextIssue \/ NextAPI]_vars

\* every authenticated route, with bodies that bind
SpecRoutes == Init /\ [][NextSignup \/ NextSignin \/ NextRoutes]_vars

\* the public routes and the profile route
SpecAccountAPI ==
    Init /\ [][NextAPIPublic \/ \E h \in RequestHeaders(now) : ServeGetUser(h)]_vars

\* concurrent registrations
SpecRegisterRace == Init /\ [][NextRegisterRace]_vars

\* concurrent updates and deletions of the products of the accounts that
\* signed up
SpecProductRace == Init /\ [][NextProductRace]_vars

\* ------------------------------------------------------ error kinds

\* NotFound, as the services word it
IsNotFound(err) == err # Nil /\ Head(err) \in {"product not found", "user not found"}

\* Forbidden, as the services word it
IsForbidden(err) ==
    err \in {<<"you are not authorized to update this product">>,
             <<"you are not authorized to delete this product">>}

\* Conflict, as RegisterUser words it
IsConflict(err) == err = <<"user with this email already exists">>

\* InvalidCredentials, as LoginUser words it
IsInvalidCredentials(err) == err = <<"invalid credentials">>

\* TokenError, as ValidateToken words it
IsTokenError(err) == err # Nil /\ Head(err) \in {"invalid token", "token is invalid"}

\* the rows of a table with the given id
RowsWithID(db, id) == {r \in db : r.ID = id}

\* ---------------------------------------------------------- claims

\* C1: UpdateProduct by a caller who is not the owner of the stored product fails
\* with Forbidden and leaves every stored product as it was.
C1_UpdateByNonOwnerForbidden ==
    last.op = "UpdateProduct" =>
        \A p \in RowsWithID(last.productsBefore, last.productID) :
            p.UserID # last.userID =>
                /\ IsForbidden(last.err)
                /\ products = last.productsBefore

\* an account that is not the owner tried to raise the price of a stored product
C1_Witness ==
    /\ last.op = "UpdateProduct"
    /\ last.req.Price = 2
    /\ \E u \in users : u.ID = last.userID
    /\ \E p \in RowsWithID(last.productsBefore, last.productID) :
           p.UserID # last.userID /\ p.Price = 1 /\ p \in products

\* C2: UpdateProduct or DeleteProduct on an identifier with no stored product fails
\* with NotFound for every caller, and the store is unchanged.
C2_AbsentIsNotFound ==
    (/\ last.op \in {"UpdateProduct", "DeleteProduct"}
     /\ RowsWithID(last.productsBefore, last.productID) = {})
    => (IsNotFound(last.err) /\ products = last.productsBefore)

\* C3: once DeleteProduct(id) has succeeded, GetProduct(id) fails with NotFound.
C3_DeletedStaysNotFound ==
    (last.op = "GetProduct" /\ last.productID \in deleted) => IsNotFound(last.err)

\* C4: LoginUser with the email and password of a registered account succeeds, and
\* its token validates at once with a subject that parses to the identifier
\* RegisterUser returned.
C4_RegisterLoginValidate ==
    last.op = "LoginUser" =>
        \A r \in registered :
            (r.Email = last.email /\ r.Password = last.password) =>
                LET v == ValidateToken(last.token, last.at)
                IN /\ last.err = Nil
                   /\ v.ok
                   /\ ParseUint(v.claims.Subject) = [val |-> r.ID, err |-> Nil]
                   /\ ParseUint(v.claims.UserID) = [val |-> r.ID, err |-> Nil]

\* the second registered account logged in, not at the start of a second
C4_Witness ==
    /\ last.op = "LoginUser"
    /\ last.err = Nil
    /\ last.at % TicksPerSecond # 0
    /\ \E r \in registered :
           r.Email = last.email /\ r.Password = last.password /\ r.ID = 2

\* C5: RegisterUser with an email that a stored account has fails with Conflict
\* and leaves the stored accounts as they were.
C5_DuplicateEmailConflict ==
    (/\ last.op = "RegisterUser"
     /\ \E u \in last.usersBefore : u.Email = last.email)
    => (IsConflict(last.err) /\ users = last.usersBefore)

\* a registration repeated an email under another username and password
C5_Witness ==
    /\ last.op = "RegisterUser"
    /\ \E u \in last.usersBefore :
           /\ u.Email = last.email
           /\ u.Username # last.username
           /\ u.Password # GenerateFromPassword(last.password)

\* a login that cannot succeed: no account has the email, or the password is wrong
UnknownEmail(email) == \A u \in users : u.Email # email

WrongPassword(email, password) ==
    \E u \in users : u.Email = email /\ u.Password # GenerateFromPassword(password)

\* C6: a login with an unknown email and a login with a wrong password return the
\* same error, InvalidCredentials, and no token.
C6_LoginFailuresAlike ==
    /\ (last.op = "LoginUser"
        /\ (UnknownEmail(last.email) \/ WrongPassword(last.email, last.password)))
       => (IsInvalidCredentials(last.err) /\ last.token = NoToken)
    /\ \A e1, e2 \in Emails, p1, p2 \in Passwords :
           (UnknownEmail(e1) /\ WrongPassword(e2, p2)) =>
               LoginUser(users, [Email |-> e1, Password |-> p1], now, expiresInHour)
               = LoginUser(users, [Email |-> e2, Password |-> p2], now, expiresInHour)

\* a login with a wrong password, while another email has no account
C6_Witness ==
    /\ last.op = "LoginUser"
    /\ WrongPassword(last.email, last.password)
    /\ \E e \in Emails : UnknownEmail(e)

\* the last call validated the token the service issued last, unaltered
ValidatedHeld ==
    last.op = "ValidateToken" /\ held.issued /\ last.token = held.token

\* C7 as stated: a token issued at t with validity D validates at t and at every
\* time before t + D, and fails at t + D and later.
C7_ValidUntilExpiry ==
    ValidatedHeld => (last.err = Nil <=> last.at < held.at + expiresInHour)

\* C7 amended: the token validates from t up to, not including, t + D cut down to
\* the whole second; it fails from then on, so at t + D and at every later time.
C7_ValidUntilTruncatedExpiry ==
    ValidatedHeld =>
        /\ last.err = Nil <=> last.at < NewNumericDate(held.at + expiresInHour)
        /\ last.at = held.at => last.err = Nil
        /\ last.at >= held.at + expiresInHour => IsTokenError(last.err)

\* a token issued within a second was refused before t + D had come
C7_Witness ==
    /\ ValidatedHeld
    /\ held.at % TicksPerSecond # 0
    /\ last.at < held.at + expiresInHour
    /\ IsTokenError(last.err)

\* the signature of the token is not the service's over its header and claims
NotSignedByService(token) == token.sig # HMAC(SecretKey, token.alg, token.claims)

\* the token was signed, header and claims, with a secret that is not the service's
SignedWithOtherSecret(token) ==
    \E k \in Keys \ {SecretKey} : token.sig = SignWith(k, token.alg, token.claims)

\* C8: ValidateToken fails with TokenError, and returns no claims, for every token
\* signed with another secret and for every corrupted token string.
C8_ForgedOrCorruptedRejected ==
    (/\ last.op = "ValidateToken"
     /\ \/ ~last.token.wellFormed
        \/ SignedWithOtherSecret(last.token)
        \/ NotSignedByService(last.token))
    => (IsTokenError(last.err) /\ last.claims = ZeroClaims)

\* an HS256 token signed with another secret, its dates in order, was presented
C8_Witness ==
    /\ last.op = "ValidateToken"
    /\ last.token.wellFormed
    /\ last.token.alg = "HS256"
    /\ SignedWithOtherSecret(last.token)
    /\ ValidateClaims(last.token.claims, last.at) = Nil
    /\ IsTokenError(last.err)

\* C9: ValidateToken rejects every token whose algorithm is not an HMAC one,
\* whatever its claims and dates.
C9_NonHMACRejected ==
    (last.op = "ValidateToken" /\ last.token.alg \notin HMACAlgs)
    => (IsTokenError(last.err) /\ last.claims = ZeroClaims)

\* an unsigned ("none") token with the claims of an issued one, within its validity
C9_Witness ==
    /\ last.op = "ValidateToken"
    /\ held.issued
    /\ last.token = [held.token EXCEPT !.alg = "none"]
    /\ ValidateClaims(last.token.claims, last.at) = Nil
    /\ IsTokenError(last.err)

\* C10: a successful UpdateProduct sets exactly the fields of the request that are
\* non-empty / non-zero; the other fields, the owner and the other rows stay.
C10_PartialUpdate ==
    (last.op = "UpdateProduct" /\ last.err = Nil) =>
        /\ RowsWithID(last.productsBefore, last.productID) # {}
        /\ \A old \in RowsWithID(last.productsBefore, last.productID) :
               LET new == [old EXCEPT
                       !.Name = IF last.req.Name = "" THEN @ ELSE last.req.Name,
                       !.Description = IF last.req.Description = "" THEN @
                                       ELSE last.req.Description,
                       !.Price = IF last.req.Price = 0 THEN @ ELSE last.req.Price]
               IN /\ products = (last.productsBefore \ {old}) \cup {new}
                  /\ last.product = new

\* a request with only a price changed the price of a named product
C10_Witness ==
    /\ last.op = "UpdateProduct"
    /\ last.err = Nil
    /\ last.req = [ZeroRequest EXCEPT !.Price = 2]
    /\ \E old \in RowsWithID(last.productsBefore, last.productID) :
           old.Price = 1 /\ old.Name = "widget"

\* C12: every stored product has a strictly positive price, and an
\* UpdateProduct whose patch carries a negative price fails and leaves the
\* stored products as they were.
C12_StoredPricePositive ==
    /\ \A p \in products : p.Price > 0
    /\ (last.op = "UpdateProduct" /\ last.req.Price < 0)
       => (last.err # Nil /\ products = last.productsBefore)

\* the owner's patch with a negative price reached the store and was refused
C12_Witness ==
    /\ last.op = "UpdateProduct"
    /\ last.req.Price < 0
    /\ \E p \in RowsWithID(products, last.productID) : p.UserID = last.userID
    /\ last.err # Nil /\ Head(last.err) = "failed to update product"

\* C13: DeleteProduct of a stored product by a caller who is not its owner
\* fails with Forbidden and leaves the stored products unchanged; by its owner
\* it succeeds and removes the row, and a removed id never has a row again.
C13_DeleteOwnerOnly ==
    /\ last.op = "DeleteProduct" =>
           \A p \in RowsWithID(last.productsBefore, last.productID) :
               IF p.UserID # last.userID
               THEN IsForbidden(last.err) /\ products = last.productsBefore
               ELSE last.err = Nil /\ products = last.productsBefore \ {p}
    /\ \A id \in deleted : RowsWithID(products, id) = {}

\* the owner deleted a stored product
C13_Witness ==
    /\ last.op = "DeleteProduct"
    /\ last.err = Nil
    /\ \E p \in RowsWithID(last.productsBefore, last.productID) : p.UserID = last.userID
    /\ last.productID \in deleted

\* C14: a product is stored under the owner given to the AddProduct that
\* created it, and no step changes the owner of a stored product.
C14_OwnerNeverChanges ==
    /\ []((last.op = "AddProduct" /\ last.err = Nil)
          => \E p \in products : p.ID = last.product.ID /\ p.UserID = last.userID)
    /\ [][\A p \in products : \A q \in products' :
              q.ID = p.ID => q.UserID = p.UserID]_vars

\* an update changed a product whose owner's id is not the product's id
C14_Witness ==
    /\ last.op = "UpdateProduct"
    /\ last.err = Nil
    /\ products # last.productsBefore
    /\ \E p \in RowsWithID(products, last.productID) : p.UserID # p.ID

\* C16: GetUserProfile of an id that no stored account has fails with NotFound.
C16_AbsentProfileNotFound ==
    (/\ last.op = "GetUserProfile"
     /\ \A u \in last.usersBefore : u.ID # last.userID)
    => IsNotFound(last.err)

\* C17: GetProductsByOwner succeeds and returns exactly the stored products
\* whose owner is the given id.
C17_ListByOwnerExact ==
    last.op = "GetProductsByOwner" =>
        /\ last.err = Nil
        /\ last.list \subseteq products
        /\ \A p \in products : p \in last.list <=> p.UserID = last.userID

\* an owner listed their stored product
C17_Witness ==
    /\ last.op = "GetProductsByOwner"
    /\ last.list # {}

\* the operations of the two services
ServiceOps ==
    {"RegisterUser", "LoginUser", "GetUserProfile", "AddProduct", "GetProduct",
     "GetProductsByOwner", "UpdateProduct", "DeleteProduct"}

\* C20: a service operation that returns an error leaves the stored accounts
\* and the stored products exactly as they were before the call.
C20_ErrorLeavesStoreUnchanged ==
    (last.op \in ServiceOps /\ last.err # Nil)
    => (users = last.usersBefore /\ products = last.productsBefore)

\* an update by a caller who is not the owner was refused while accounts and
\* products are stored
C20_Witness ==
    /\ last.op = "UpdateProduct"
    /\ IsForbidden(last.err)
    /\ last.req # ZeroRequest
    /\ users # {}
    /\ \E p \in RowsWithID(products, last.productID) : p.UserID # last.userID

\* the account a context userID names among the given rows, if any
AccountsNamed(userRows, idStr) ==
    {u \in userRows : ParseUint(idStr).err = Nil /\ u.ID = ParseUint(idStr).val}

\* C11: POST /products with a price that is not positive is refused before
\* the service is called: no product is created, the stored products are as
\* before, and an authenticated caller with a numeric id is answered 400.
C11_NonPositivePriceRejected ==
    (last.op = "POST /products" /\ last.req.Price <= 0) =>
        /\ last.status # 201
        /\ last.called = ""
        /\ products = last.productsBefore
        /\ (last.authenticated /\ ParseUint(last.subject).err = Nil)
           => last.status = 400

\* an account's request to create a product with a non-positive price was
\* answered 400
C11_Witness ==
    /\ last.op = "POST /products"
    /\ last.req.Price <= 0
    /\ last.req.Name # ""
    /\ AccountsNamed(users, last.subject) # {}
    /\ last.status = 400

\* C15: the owner of every stored product is a stored account, and POST
\* /products under a token whose subject names no stored account creates no
\* product.
C15_OwnerIsStoredAccount ==
    /\ \A p \in products : \E u \in users : u.ID = p.UserID
    /\ (last.op = "POST /products" /\ AccountsNamed(last.usersBefore, last.subject) = {})
       => (last.status # 201 /\ products = last.productsBefore)

\* a well-formed create request under a validated token naming no account
\* reached the service and was refused
C15_Witness ==
    /\ last.op = "POST /products"
    /\ last.authenticated
    /\ ParseUint(last.subject).err = Nil
    /\ AccountsNamed(last.usersBefore, last.subject) = {}
    /\ last.called = "AddProduct"
    /\ last.status = 500
    /\ products = {}

\* C18: GET /products/:id of a stored product under any validated token is
\* answered 200 with that product, whoever the token's subject is.
C18_GetByIDAnyCaller ==
    (/\ last.op = "GET /products/:id"
     /\ last.authenticated
     /\ ParseUint(last.param).err = Nil)
    => \A p \in RowsWithID(products, ParseUint(last.param).val) :
           last.status = 200 /\ last.body = p

\* a stored product was returned to an account that does not own it
C18_Witness ==
    /\ last.op = "GET /products/:id"
    /\ last.status = 200
    /\ \E u \in AccountsNamed(users, last.subject) :
           \E p \in products : last.body = p /\ p.UserID # u.ID

\* C19: a request under a validated token whose subject is not a decimal
\* number is answered 401 and calls no service operation.
C19_BadSubjectIsAuthFailure ==
    (/\ last.op \in {"POST /products", "GET /products", "GET /user"}
     /\ last.authenticated
     /\ ParseUint(last.subject).err # Nil)
    => (last.status = 401 /\ last.called = "")

\* C30: a LoginUser that succeeds found a stored account with the given
\* email whose stored hash is the hash of the given password, and its token
\* carries the decimal rendering of that account's id as subject; a LoginUser
\* that returns an error returns no token.
C30_LoginIssuesTokenForAccount ==
    last.op = "LoginUser" =>
        IF last.err = Nil
        THEN \E u \in last.usersBefore :
                 /\ u.Email = last.email
                 /\ u.Password = GenerateFromPassword(last.password)
                 /\ last.token.claims.UserID = FormatUint(u.ID)
                 /\ last.token.claims.Subject = FormatUint(u.ID)
                 /\ last.token.sig = HMAC(SecretKey, last.token.alg, last.token.claims)
        ELSE last.token = NoToken

\* a login with a stored account's email and another account's password was
\* refused without a token
C30_Witness ==
    /\ last.op = "LoginUser"
    /\ last.err # Nil
    /\ last.token = NoToken
    /\ \E u \in users : u.Email = last.email
    /\ \E u \in users : u.Email # last.email
                        /\ u.Password = GenerateFromPassword(last.password)

\* C22: POST /register with a username that a stored account has and an
\* email that none has is answered 409 and leaves the stored accounts as they
\* were.
C22_DuplicateUsernameConflict ==
    (/\ last.op = "POST /register"
     /\ last.called = "RegisterUser"
     /\ \E u \in last.usersBefore : u.Username = last.username
     /\ \A u \in last.usersBefore : u.Email # last.email)
    => (last.status = 409 /\ users = last.usersBefore)

\* C23: every stored Password is the bcrypt hash of the password given at
\* registration, and the bodies of a successful POST
\* /register and GET /user have the fields id, username, email (and message
\* for the former) and no Password field.
C23_PasswordNeverExposed ==
    /\ \A u \in users :
           \E r \in registered :
               /\ r.ID = u.ID
               /\ u.Password = GenerateFromPassword(r.Password)
               /\ Head(u.Password) = "$2a$10$"
    /\ (last.op = "POST /register" /\ last.status = 201)
       => DOMAIN last.body = {"message", "id", "username", "email"}
    /\ (last.op = "GET /user" /\ last.status = 200)
       => DOMAIN last.body = {"id", "username", "email"}

\* a stored account read its profile
C23_Witness ==
    /\ last.op = "GET /user"
    /\ last.status = 200
    /\ \E u \in users : u.ID = last.body.id /\ u.Email = last.body.email

\* the routes behind AuthMiddleware
AuthenticatedRoutes ==
    {"GET /user", "POST /products", "GET /products/:id", "GET /products",
     "PUT /products/:id", "DELETE /products/:id"}

\* the header is "Bearer <token>" and ValidateToken accepts the token
BearerOfValidToken(header, t) ==
    /\ Len(header) = 2
    /\ header[1] = "Bearer"
    /\ ValidateToken(header[2], t).err = Nil

\* C24: on every authenticated route a handler, and so a service operation,
\* runs only under a header "Bearer <token>" whose token ValidateToken
\* accepts; every other request is answered 401, calls nothing and leaves the
\* store as it was.
C24_HandlersBehindAuth ==
    last.op \in AuthenticatedRoutes =>
        /\ (last.authenticated \/ last.called # "")
           => BearerOfValidToken(last.header, last.at)
        /\ ~BearerOfValidToken(last.header, last.at)
           => /\ last.status = 401
              /\ last.called = ""
              /\ ~last.authenticated
              /\ products = last.productsBefore
              /\ users = last.usersBefore

\* the owner's valid token sent under the scheme Basic did not delete the
\* owner's product
C24_Witness ==
    /\ last.op = "DELETE /products/:id"
    /\ Len(last.header) = 2
    /\ last.header[1] = "Basic"
    /\ ValidateToken(last.header[2], last.at).err = Nil
    /\ last.status = 401
    /\ \E p \in RowsWithID(products, ParseUint(last.param).val) :
           FormatUint(p.UserID) = ValidateToken(last.header[2], last.at).claims.UserID

\* C25: when the service call of PUT or DELETE /products/:id fails, the
\* answer is 404 if no product with the id is stored, 403 if one is stored and
\* the caller is not its owner, and 500 otherwise.
C25_WriteErrorStatuses ==
    (/\ last.op \in {"PUT /products/:id", "DELETE /products/:id"}
     /\ last.called # ""
     /\ last.status \notin {200, 204})
    => LET rows == RowsWithID(last.productsBefore, ParseUint(last.param).val)
       IN IF rows = {} THEN last.status = 404
          ELSE IF \A p \in rows : FormatUint(p.UserID) # last.subject
          THEN last.status = 403
          ELSE last.status = 500

\* C21: no two stored accounts share an email, a username or an id, whatever
\* the interleaving of the lookups and inserts of concurrent RegisterUser calls.
C21_UniqueEmailAndUsername ==
    \A u \in users : \A v \in users :
        u # v => (u.Email # v.Email /\ u.Username # v.Username /\ u.ID # v.ID)

\* two calls passed the lookup with the same username and different emails;
\* one was stored, the other's insert failed
C21_Witness ==
    \E p \in Procs : \E q \in Procs \ {p} :
        /\ inflight[p].pc = "done" /\ inflight[q].pc = "done"
        /\ inflight[p].wrote /\ inflight[q].wrote
        /\ inflight[p].register.Username = inflight[q].register.Username
        /\ inflight[p].register.Email # inflight[q].register.Email
        /\ inflight[p].err = Nil /\ inflight[q].err # Nil
        /\ Cardinality(users) = 1

\* two finished RegisterUser calls with the same email that both passed the
\* lookup before either inserted
RacedOnEmail(p, q) ==
    /\ p # q
    /\ inflight[p].op = "RegisterUser" /\ inflight[q].op = "RegisterUser"
    /\ inflight[p].pc = "done" /\ inflight[q].pc = "done"
    /\ inflight[p].raced /\ inflight[q].raced
    /\ inflight[p].register.Email = inflight[q].register.Email

\* the call failed in its insert, with the generic failure and no row
FailedGeneric(p) ==
    /\ inflight[p].err # Nil
    /\ Head(inflight[p].err) = "failed to register user"
    /\ ~IsConflict(inflight[p].err)
    /\ inflight[p].changed = {}

\* no account stored under another email has the call's username
UsernameFree(p) ==
    \A u \in users :
        u.Email # inflight[p].register.Email
        => u.Username # inflight[p].register.Username

\* C29 as stated: of two RegisterUser calls with the same email that both
\* passed the lookup before either inserted, exactly one succeeds and the
\* other fails with the generic failure and creates no account.
C29_ExactlyOneWins ==
    \A p \in Procs : \A q \in Procs :
        RacedOnEmail(p, q) =>
            \/ inflight[p].err = Nil /\ FailedGeneric(q)
            \/ inflight[q].err = Nil /\ FailedGeneric(p)

\* C29, amended: at most one of the two succeeds, each one that fails does so
\* with the generic failure and creates no account, one account at most is
\* stored under the email, and exactly one succeeds when neither username is
\* taken by an account stored under another email.
C29_AtMostOneWins ==
    \A p \in Procs : \A q \in Procs :
        RacedOnEmail(p, q) =>
            /\ inflight[p].err # Nil \/ inflight[q].err # Nil
            /\ inflight[p].err # Nil => FailedGeneric(p)
            /\ inflight[q].err # Nil => FailedGeneric(q)
            /\ Cardinality({u \in users : u.Email = inflight[p].register.Email}) <= 1
            /\ (UsernameFree(p) /\ UsernameFree(q))
               => (inflight[p].err = Nil \/ inflight[q].err = Nil)

\* two calls with the same email and different usernames raced; one was stored
C29_Witness ==
    \E p \in Procs : \E q \in Procs :
        /\ RacedOnEmail(p, q)
        /\ inflight[p].register.Username # inflight[q].register.Username
        /\ inflight[p].err = Nil
        /\ FailedGeneric(q)
        /\ \E u \in users : u.Username = inflight[p].register.Username

C27_NoLostUpdate ==
    \A p \in Procs : \A q \in Procs :
        (/\ inflight[p].op = "UpdateProduct" /\ inflight[q].op = "UpdateProduct"
         /\ inflight[p].pc = "done" /\ inflight[q].pc = "done"
         /\ inflight[p].err = Nil /\ inflight[q].err = Nil
         /\ inflight[p].wrote /\ inflight[q].wrote
         /\ inflight[p].productID = inflight[q].productID
         /\ inflight[p].userID = inflight[q].userID
         /\ inflight[p].req.Name # "" /\ inflight[p].req.Price = 0
         /\ inflight[q].req.Name = "" /\ inflight[q].req.Price # 0)
        => \A row \in RowsWithID(products, inflight[p].productID) :
               row.Name = inflight[p].req.Name /\ row.Price = inflight[q].req.Price

\* C28: an UpdateProduct call that fetched a stored product and whose UPDATE
\* ran when the row was gone returns an error, changes nothing, and leaves no
\* row with the product's id.
C28_UpdateAfterDeleteFails ==
    \A p \in Procs :
        (/\ inflight[p].op = "UpdateProduct"
         /\ inflight[p].pc = "done"
         /\ inflight[p].wrote
         /\ inflight[p].product.ID # 0
         /\ inflight[p].found = {})
        => /\ inflight[p].err # Nil
           /\ Head(inflight[p].err) = "failed to update product"
           /\ inflight[p].changed = {}
           /\ RowsWithID(products, inflight[p].product.ID) = {}

\* an owner's update that fetched the product ran its UPDATE after the owner's
\* concurrent delete had returned nil
C28_Witness ==
    \E p \in Procs : \E q \in Procs \ {p} :
        /\ inflight[p].op = "UpdateProduct" /\ inflight[p].pc = "done"
        /\ inflight[p].wrote
        /\ inflight[p].product.ID # 0
        /\ inflight[p].found = {}
        /\ inflight[p].err # Nil
        /\ inflight[q].op = "DeleteProduct" /\ inflight[q].pc = "done"
        /\ inflight[q].err = Nil
        /\ inflight[q].productID = inflight[p].product.ID
        /\ inflight[q].productID \in deleted

====
